---- MODULE Spec2Model ----
(***************************************************************************)
(* Model of two files of the Galaxy client:                                *)
(*   client/galaxy/scripts/mvc/history/hdca-li-edit.js  (HDCAListItemEdit) *)
(*   client/karma.config.js                             (karma set-up)     *)
(*                                                                         *)
(* JavaScript values whose truthiness matters are records                  *)
(* [type |-> ..., val |-> ...] so that the string "false" and the boolean  *)
(* false stay different values.                                            *)
(***************************************************************************)
EXTENDS Integers, Sequences, FiniteSets

VARIABLES
    collection_type,  \* model attribute collection_type
    deleted,          \* model attribute deleted
    panel,            \* outcome of the last _getFoldoutPanelClass call
    baseActions,      \* what the base view's _renderPrimaryActions returned
    renderDeleted,    \* the local "deleted" read by the last _renderDeleteButton
    primaryActions,   \* what the last _renderPrimaryActions returned
    rendered,         \* _renderPrimaryActions has been called
    events,           \* what the onclick handler did so far, in order
    clicks,           \* number of onclick invocations
    env,              \* process.env.GALAXY_TEST_AS_SINGLE_PACK
    webpackOriginal,  \* what ./webpack.config exports before it is touched
    webpackConfig,    \* the webpackConfig object of karma.config.js
    loaded,           \* the body of karma.config.js has run
    karmaCalls,       \* number of module.exports(config) calls
    files,            \* the files setting given to config.set
    karmaWebpack,     \* the webpack setting given to config.set
    bundles           \* the entry points karma-webpack resolved

viewVars  == <<collection_type, deleted, panel, baseActions, renderDeleted,
               primaryActions, rendered, events, clicks>>
karmaVars == <<env, webpackOriginal, webpackConfig, loaded, karmaCalls,
               files, karmaWebpack, bundles>>
vars      == <<viewVars, karmaVars>>

----------------------------------------------------------------------------
(* Bounds *)
MaxClicks    == 3
MaxBase      == 2
MaxPlugins   == 2
MaxKarmaCalls == 2

----------------------------------------------------------------------------
(* JavaScript values *)
JSUndefined == [type |-> "undefined", val |-> "undefined"]
JSTrue      == [type |-> "boolean", val |-> "true"]
JSFalse     == [type |-> "boolean", val |-> "false"]
JSString(s) == [type |-> "string", val |-> s]

\* ToBoolean of the values above
Truthy(v) ==
    CASE v.type = "undefined" -> FALSE
      [] v.type = "boolean"   -> v.val = "true"
      [] v.type = "string"    -> v.val # ""

\* a || b
JSOr(a, b) == IF Truthy(a) THEN a ELSE b

----------------------------------------------------------------------------
(* hdca-li-edit.js *)

\* values model.get("collection_type") is drawn from
CollectionTypes ==
    { JSString("list"), JSString("paired"), JSString("list:paired"),
      JSString("list:list"), JSString("List"), JSString("PAIRED"),
      JSString("list:list:paired"), JSString(""), JSUndefined }

\* values model.get("deleted") is drawn from
DeletedValues == { JSTrue, JSFalse, JSUndefined }

NoPanel == [result |-> [status |-> "none", value |-> "none"],
            input |-> JSUndefined, deleted |-> JSUndefined]

\* variant: the "list:paired" case returns the class of the next case
GetFoldoutPanelClassCopied(ct) ==
    CASE ct = JSString("list") ->
           [status |-> "returned", value |-> "ListCollectionViewEdit"]
      [] ct = JSString("paired") ->
           [status |-> "returned", value |-> "PairCollectionViewEdit"]
      [] ct = JSString("list:paired") ->
           [status |-> "returned", value |-> "ListOfListsCollectionViewEdit"]
      [] ct = JSString("list:list") ->
           [status |-> "returned", value |-> "ListOfListsCollectionViewEdit"]
      [] OTHER ->
           [status |-> "threw", value |-> "TypeError"]

\* variant: a default case instead of the throw
GetFoldoutPanelClassDefault(ct) ==
    CASE ct = JSString("list") ->
           [status |-> "returned", value |-> "ListCollectionViewEdit"]
      [] ct = JSString("paired") ->
           [status |-> "returned", value |-> "PairCollectionViewEdit"]
      [] ct = JSString("list:paired") ->
           [status |-> "returned", value |-> "ListOfPairsCollectionViewEdit"]
      [] ct = JSString("list:list") ->
           [status |-> "returned", value |-> "ListOfListsCollectionViewEdit"]
      [] OTHER ->
           [status |-> "returned", value |-> "ListCollectionViewEdit"]

\* switch (collectionType) compares with ===, so only strings match
_getFoldoutPanelClass(ct) ==
    CASE ct = JSString("list") ->
           [status |-> "returned", value |-> "ListCollectionViewEdit"]
      [] ct = JSString("paired") ->
           [status |-> "returned", value |-> "PairCollectionViewEdit"]
      [] ct = JSString("list:paired") ->
           [status |-> "returned", value |-> "ListOfPairsCollectionViewEdit"]
      [] ct = JSString("list:list") ->
           [status |-> "returned", value |-> "ListOfListsCollectionViewEdit"]
      [] OTHER ->
           [status |-> "threw", value |-> "TypeError"]

\* utils/localization: the translation of a message in the current locale
_l(msg) == [localized |-> msg]

\* variant: the disabled option is left out
RenderDeleteButtonNeverDisabled(d) ==
    [ title    |-> IF Truthy(d) THEN _l("Dataset collection is already deleted")
                                ELSE _l("Delete"),
      classes  |-> "delete-btn",
      faIcon   |-> "fa-times",
      disabled |-> JSUndefined ]

\* the options handed to faIconButton, without the handler
_renderDeleteButton(d) ==
    [ title    |-> IF Truthy(d) THEN _l("Dataset collection is already deleted")
                                ELSE _l("Delete"),
      classes  |-> "delete-btn",
      faIcon   |-> "fa-times",
      disabled |-> d ]

\* variant: the delete button is put first
RenderPrimaryActionsPrepend(base, d) == << _renderDeleteButton(d) >> \o base

\* _super.prototype._renderPrimaryActions.call(this).concat([...])
_renderPrimaryActions(base, d) == base \o << _renderDeleteButton(d) >>

\* variant: the handler returns early for a model that is already deleted
OnclickGuarded(d) ==
    IF Truthy(d) THEN << >>
    ELSE << [name |-> "mouseout", deleted |-> d],
            [name |-> "delete", deleted |-> d] >>

\* the onclick handler of the delete button: what it does, in order, each
\* step with the model's deleted flag d at the time of the click
onclick(d) == << [name |-> "mouseout", deleted |-> d],
                 [name |-> "delete", deleted |-> d] >>

\* model["delete"](): the flag after the call
ModelDelete(d) == { d, JSTrue }

\* buttons the base view may render
BaseButton(name) ==
    [ title |-> _l(name), classes |-> "display-btn", faIcon |-> "fa-eye",
      disabled |-> JSFalse ]
BaseButtons == { BaseButton("View"), BaseButton("Edit") }

RECURSIVE SeqsUpTo(_, _)
SeqsUpTo(S, n) ==
    IF n = 0 THEN { <<>> }
    ELSE LET shorter == SeqsUpTo(S, n - 1)
         IN  shorter \cup { Append(s, x) : s \in { t \in shorter : Len(t) = n - 1 }, x \in S }

ViewInit ==
    /\ collection_type \in CollectionTypes
    /\ deleted \in DeletedValues
    /\ panel = NoPanel
    /\ baseActions = <<>>
    /\ renderDeleted = JSUndefined
    /\ primaryActions = <<>>
    /\ rendered = FALSE
    /\ events = <<>>
    /\ clicks = 0

\* the list item asks which panel class to fold out
GetFoldoutPanelClass ==
    /\ panel' = [result  |-> _getFoldoutPanelClass(collection_type),
                 input   |-> collection_type,
                 deleted |-> deleted]
    /\ UNCHANGED <<collection_type, deleted, baseActions, renderDeleted,
                   primaryActions, rendered, events, clicks>>
    /\ UNCHANGED karmaVars

\* the list item renders its primary actions
RenderPrimaryActions ==
    \E base \in SeqsUpTo(BaseButtons, MaxBase) :
        /\ baseActions' = base
        /\ renderDeleted' = deleted
        /\ primaryActions' = _renderPrimaryActions(base, deleted)
        /\ rendered' = TRUE
        /\ UNCHANGED <<collection_type, deleted, panel, events, clicks>>
        /\ UNCHANGED karmaVars

\* the user clicks the rendered delete button
ClickDelete ==
    /\ rendered
    /\ clicks < MaxClicks
    /\ LET steps == onclick(deleted)
       IN  /\ events' = events \o steps
           /\ IF \E i \in DOMAIN steps : steps[i].name = "delete"
              THEN deleted' \in ModelDelete(deleted)
              ELSE deleted' = deleted
    /\ clicks' = clicks + 1
    /\ UNCHANGED <<collection_type, panel, baseActions, renderDeleted,
                   primaryActions, rendered>>
    /\ UNCHANGED karmaVars

----------------------------------------------------------------------------
(* karma.config.js *)

\* process.env.GALAXY_TEST_AS_SINGLE_PACK: unset, or a string
EnvValues == { JSUndefined, JSString(""), JSString("1"), JSString("0"),
               JSString("false") }

PluginNames == { "CommonsChunkPlugin", "ProvidePlugin", "UglifyJsPlugin" }
BundleNames == { "libs", "analysis" }

\* variant: the start index is off by one
SpliceOffByOne(arr, start, deleteCount) ==
    LET from == IF start + 1 > Len(arr) THEN Len(arr) ELSE start + 1
        cnt  == IF deleteCount > Len(arr) - from THEN Len(arr) - from
                ELSE deleteCount
    IN  SubSeq(arr, 1, from) \o SubSeq(arr, from + cnt + 1, Len(arr))

\* Array.prototype.splice(start, deleteCount) with no inserted items:
\* the array after the call
splice(arr, start, deleteCount) ==
    LET from == IF start > Len(arr) THEN Len(arr) ELSE start
        cnt  == IF deleteCount > Len(arr) - from THEN Len(arr) - from
                ELSE deleteCount
    IN  SubSeq(arr, 1, from) \o SubSeq(arr, from + cnt + 1, Len(arr))

\* webpackConfig.entry = function() { return {}; }
EmptyEntry == [kind |-> "function", bundles |-> {}]

\* variant: the variable is read as a number or boolean
SinglePackModeParsed(e) ==
    IF e \in { JSString("0"), JSString("false") } THEN JSFalse
    ELSE JSOr(e, JSFalse)

single_pack_mode(e) == JSOr(e, JSFalse)

Test(p) == [pattern |-> p, watched |-> FALSE]

\* variant: a disabled test is listed again
TestsSeparatePacksWithUi ==
    << Test("galaxy/scripts/qunit/tests/list-of-pairs-collection-creator.js"),
       Test("galaxy/scripts/qunit/tests/galaxy-app-base.js"),
       Test("galaxy/scripts/qunit/tests/graph.js"),
       Test("galaxy/scripts/qunit/tests/hda-base.js"),
       Test("galaxy/scripts/qunit/tests/history_contents_model_tests.js"),
       Test("galaxy/scripts/qunit/tests/job-dag.js"),
       Test("galaxy/scripts/qunit/tests/metrics-logger.js"),
       Test("galaxy/scripts/qunit/tests/popover_tests.js"),
       Test("galaxy/scripts/qunit/tests/utils_test.js"),
       Test("galaxy/scripts/qunit/tests/page_tests.js"),
       Test("galaxy/scripts/qunit/tests/workflow_editor_tests.js"),
       Test("galaxy/scripts/qunit/tests/ui_tests.js") >>

TESTS_SEPARATE_PACKS ==
    << Test("galaxy/scripts/qunit/tests/list-of-pairs-collection-creator.js"),
       Test("galaxy/scripts/qunit/tests/galaxy-app-base.js"),
       Test("galaxy/scripts/qunit/tests/graph.js"),
       Test("galaxy/scripts/qunit/tests/hda-base.js"),
       Test("galaxy/scripts/qunit/tests/history_contents_model_tests.js"),
       Test("galaxy/scripts/qunit/tests/job-dag.js"),
       Test("galaxy/scripts/qunit/tests/metrics-logger.js"),
       Test("galaxy/scripts/qunit/tests/popover_tests.js"),
       Test("galaxy/scripts/qunit/tests/utils_test.js"),
       Test("galaxy/scripts/qunit/tests/page_tests.js"),
       Test("galaxy/scripts/qunit/tests/workflow_editor_tests.js") >>

TESTS_AS_SINGLE_PACK ==
    << Test("galaxy/scripts/qunit/test.js") >>

\* the plain string entry of the files list
Asset(p) == [asset |-> p]

\* the files setting computed by module.exports
KarmaFiles(e) ==
    (IF Truthy(single_pack_mode(e)) THEN TESTS_AS_SINGLE_PACK
                                    ELSE TESTS_SEPARATE_PACKS)
    \o << Asset("galaxy/scripts/qunit/assets/*.css") >>

NotResolved == [resolved |-> FALSE, names |-> {}]

NoWebpack == [plugins |-> <<>>, entry |-> [kind |-> "none", bundles |-> {}]]

KarmaInit ==
    /\ env \in EnvValues
    /\ webpackOriginal \in
          [ plugins : SeqsUpTo(PluginNames, MaxPlugins),
            entry   : { [kind |-> "object", bundles |-> b] :
                          b \in SUBSET BundleNames } ]
    /\ webpackConfig = webpackOriginal
    /\ loaded = FALSE
    /\ karmaCalls = 0
    /\ files = <<>>
    /\ karmaWebpack = NoWebpack
    /\ bundles = NotResolved

\* require("./karma.config"): the module body runs once
LoadKarmaConfig ==
    /\ ~loaded
    /\ webpackConfig' = [ plugins |-> splice(webpackConfig.plugins, 0, 1),
                          entry   |-> EmptyEntry ]
    /\ loaded' = TRUE
    /\ UNCHANGED <<env, webpackOriginal, karmaCalls, files, karmaWebpack, bundles>>
    /\ UNCHANGED viewVars

\* karma calls module.exports(config), which calls config.set
KarmaConfigure ==
    /\ loaded
    /\ karmaCalls < MaxKarmaCalls
    /\ karmaCalls' = karmaCalls + 1
    /\ files' = KarmaFiles(env)
    /\ karmaWebpack' = webpackConfig
    /\ UNCHANGED <<env, webpackOriginal, webpackConfig, loaded, bundles>>
    /\ UNCHANGED viewVars

\* karma-webpack resolves the entry of the webpack setting it was given
KarmaResolveEntry ==
    /\ karmaCalls > 0
    /\ bundles' = [resolved |-> TRUE, names |-> karmaWebpack.entry.bundles]
    /\ UNCHANGED <<env, webpackOriginal, webpackConfig, loaded, karmaCalls,
                   files, karmaWebpack>>
    /\ UNCHANGED viewVars

----------------------------------------------------------------------------
(* Specifications *)

\* the karma set-up while only the view is exercised
KarmaIdle ==
    /\ env = JSUndefined
    /\ webpackOriginal = [ plugins |-> << "CommonsChunkPlugin" >>,
                           entry   |-> [kind |-> "object", bundles |-> {"libs"}] ]
    /\ webpackConfig = webpackOriginal
    /\ loaded = FALSE
    /\ karmaCalls = 0
    /\ files = <<>>
    /\ karmaWebpack = NoWebpack
    /\ bundles = NotResolved

\* the view while only the karma set-up is exercised
ViewIdle ==
    /\ collection_type = JSString("list")
    /\ deleted = JSFalse
    /\ panel = NoPanel
    /\ baseActions = <<>>
    /\ renderDeleted = JSUndefined
    /\ primaryActions = <<>>
    /\ rendered = FALSE
    /\ events = <<>>
    /\ clicks = 0

\* the list item view
Init == ViewInit /\ KarmaIdle
Next ==
    \/ GetFoldoutPanelClass
    \/ RenderPrimaryActions
    \/ ClickDelete
Spec == Init /\ [][Next]_vars

\* the karma configuration
InitKarma == KarmaInit /\ ViewIdle
NextKarma ==
    \/ LoadKarmaConfig
    \/ KarmaConfigure
    \/ KarmaResolveEntry
SpecKarma == InitKarma /\ [][NextKarma]_vars

----------------------------------------------------------------------------
(* Properties *)

Range(seq) == { seq[i] : i \in DOMAIN seq }

KnownCollectionTypes ==
    { JSString("list"), JSString("paired"), JSString("list:paired"),
      JSString("list:list") }

PanelCalled == panel.result.status # "none"

\* C1: for a collection_type that is one of the four known values,
\* _getFoldoutPanelClass returns the matching editable panel class, whatever
\* the deleted flag is, and two different known values give two different
\* classes.
PanelClassOfKnownType ==
    /\ (PanelCalled /\ panel.input \in KnownCollectionTypes) =>
          /\ panel.result.status = "returned"
          /\ panel.input = JSString("list") =>
                panel.result.value = "ListCollectionViewEdit"
          /\ panel.input = JSString("paired") =>
                panel.result.value = "PairCollectionViewEdit"
          /\ panel.input = JSString("list:paired") =>
                panel.result.value = "ListOfPairsCollectionViewEdit"
          /\ panel.input = JSString("list:list") =>
                panel.result.value = "ListOfListsCollectionViewEdit"
    /\ \A a, b \in KnownCollectionTypes :
          a # b => _getFoldoutPanelClass(a).value # _getFoldoutPanelClass(b).value

\* a known type was looked up on a deleted collection
PanelClassOfKnownTypeSeen ==
    /\ panel.input = JSString("list:paired")
    /\ panel.deleted = JSTrue
    /\ panel.result.status = "returned"

\* C2: for every collection_type that is not exactly one of the four known
\* values (absent, or differing in case, included) _getFoldoutPanelClass
\* throws a TypeError and returns no class.
UnknownTypeThrows ==
    (PanelCalled /\ panel.input \notin KnownCollectionTypes) =>
        /\ panel.result.status = "threw"
        /\ panel.result.value = "TypeError"

\* a type differing only in case was looked up
UnknownTypeThrowsSeen ==
    /\ panel.input = JSString("List")
    /\ panel.result.status = "threw"

EnvUnsetOrEmpty == env = JSUndefined \/ env = JSString("")

\* C3: the files list starts with the separate per-test patterns when
\* GALAXY_TEST_AS_SINGLE_PACK is unset or empty and with the single pattern
\* when it is set to a non-empty value; entries of the two lists never occur
\* together.
FilesChosenByEnv ==
    karmaCalls > 0 =>
        IF EnvUnsetOrEmpty
        THEN /\ Len(files) >= Len(TESTS_SEPARATE_PACKS)
             /\ SubSeq(files, 1, Len(TESTS_SEPARATE_PACKS)) = TESTS_SEPARATE_PACKS
             /\ Range(files) \cap Range(TESTS_AS_SINGLE_PACK) = {}
        ELSE /\ Len(files) >= Len(TESTS_AS_SINGLE_PACK)
             /\ SubSeq(files, 1, Len(TESTS_AS_SINGLE_PACK)) = TESTS_AS_SINGLE_PACK
             /\ Range(files) \cap Range(TESTS_SEPARATE_PACKS) = {}

\* karma was configured with the variable set to the string "false"
FilesChosenByEnvSeen ==
    /\ karmaCalls > 0
    /\ env = JSString("false")
    /\ files[1].pattern = "galaxy/scripts/qunit/test.js"

IsTest(f) == "pattern" \in DOMAIN f

EnabledTests ==
    << "galaxy/scripts/qunit/tests/list-of-pairs-collection-creator.js",
       "galaxy/scripts/qunit/tests/galaxy-app-base.js",
       "galaxy/scripts/qunit/tests/graph.js",
       "galaxy/scripts/qunit/tests/hda-base.js",
       "galaxy/scripts/qunit/tests/history_contents_model_tests.js",
       "galaxy/scripts/qunit/tests/job-dag.js",
       "galaxy/scripts/qunit/tests/metrics-logger.js",
       "galaxy/scripts/qunit/tests/popover_tests.js",
       "galaxy/scripts/qunit/tests/utils_test.js",
       "galaxy/scripts/qunit/tests/page_tests.js",
       "galaxy/scripts/qunit/tests/workflow_editor_tests.js" >>

DisabledTests ==
    { "galaxy/scripts/qunit/tests/ui_tests.js",
      "galaxy/scripts/qunit/tests/modal_tests.js",
      "galaxy/scripts/qunit/tests/upload_dialog_tests.js",
      "galaxy/scripts/qunit/tests/form_tests.js",
      "galaxy/scripts/qunit/tests/masthead_tests.js" }

\* C4: in the many-small-bundles mode the test entries of the files list
\* are exactly the eleven listed patterns, in their declared order, each with
\* watched false, and none of the disabled tests is among them.
SeparatePacksFiles ==
    (karmaCalls > 0 /\ EnvUnsetOrEmpty) =>
        LET tests == SelectSeq(files, IsTest)
        IN  /\ Len(tests) = 11
            /\ \A i \in 1..11 : /\ tests[i].pattern = EnabledTests[i]
                                /\ tests[i].watched = FALSE
            /\ \A i \in DOMAIN files :
                  IF IsTest(files[i]) THEN files[i].pattern \notin DisabledTests
                  ELSE files[i].asset \notin DisabledTests

\* karma was configured in the many-small-bundles mode
SeparatePacksFilesSeen ==
    /\ karmaCalls > 0
    /\ env = JSString("")
    /\ Len(files) = 12

\* C5: _renderPrimaryActions returns the base view's actions, unchanged and
\* in order, followed by one delete button: one element more than the base.
PrimaryActionsAppendDelete ==
    rendered =>
        /\ Len(primaryActions) = Len(baseActions) + 1
        /\ \A i \in 1..Len(baseActions) : primaryActions[i] = baseActions[i]
        /\ primaryActions[Len(primaryActions)].classes = "delete-btn"

\* two different base actions were rendered
PrimaryActionsAppendDeleteSeen ==
    /\ rendered
    /\ Len(baseActions) >= 2
    /\ baseActions[1] # baseActions[2]

DeleteButton == primaryActions[Len(primaryActions)]

\* C6: the delete button is disabled exactly when the deleted flag read at
\* render time is truthy; its title is the (localized) "Dataset collection is
\* already deleted" exactly when disabled and "Delete" otherwise; classes
\* and icon are always "delete-btn" and "fa-times".
DeleteButtonDisabledIffDeleted ==
    rendered =>
        /\ Truthy(DeleteButton.disabled) <=> Truthy(renderDeleted)
        /\ Truthy(DeleteButton.disabled) =>
              DeleteButton.title = _l("Dataset collection is already deleted")
        /\ ~Truthy(DeleteButton.disabled) => DeleteButton.title = _l("Delete")
        /\ DeleteButton.classes = "delete-btn"
        /\ DeleteButton.faIcon = "fa-times"

\* a deleted collection was rendered
DeleteButtonDisabledIffDeletedSeen ==
    /\ rendered
    /\ renderDeleted = JSTrue
    /\ Truthy(DeleteButton.disabled)

\* C7: every invocation of the onclick handler triggers mouseout and then
\* calls the model's delete, once each, whatever the deleted flag is: after
\* n invocations there were n mouseouts and n delete calls, alternating.
OnclickMouseoutThenDelete ==
    /\ Len(events) = 2 * clicks
    /\ \A i \in 1..clicks : /\ events[2 * i - 1].name = "mouseout"
                            /\ events[2 * i].name = "delete"
    /\ Cardinality({ i \in DOMAIN events : events[i].name = "delete" }) = clicks

\* the handler ran twice, the second time on a model already deleted
OnclickMouseoutThenDeleteSeen ==
    /\ clicks >= 2
    /\ events[4].name = "delete"
    /\ Truthy(events[4].deleted)

\* C8: loading the karma configuration removes exactly the first plugin of
\* the webpack configuration, keeps the others in order, and replaces the
\* entry by a function returning an empty object; that configuration is the
\* webpack setting karma gets, so no application bundle is built.
WebpackConfigTrimmed ==
    /\ loaded =>
          /\ Len(webpackOriginal.plugins) > 0 =>
                /\ Len(webpackConfig.plugins) = Len(webpackOriginal.plugins) - 1
                /\ \A i \in 1..Len(webpackConfig.plugins) :
                      webpackConfig.plugins[i] = webpackOriginal.plugins[i + 1]
          /\ Len(webpackOriginal.plugins) = 0 => webpackConfig.plugins = << >>
          /\ webpackConfig.entry.kind = "function"
          /\ webpackConfig.entry.bundles = {}
    /\ karmaCalls > 0 => (loaded /\ karmaWebpack = webpackConfig)
    /\ bundles.resolved => bundles.names = {}

\* karma resolved the entry of a configuration that had two plugins and
\* application bundles
WebpackConfigTrimmedSeen ==
    /\ bundles.resolved
    /\ Len(webpackOriginal.plugins) = 2
    /\ webpackOriginal.plugins[1] # webpackOriginal.plugins[2]
    /\ webpackOriginal.entry.bundles # {}

====
